---- MODULE Spec2Model ----
(***************************************************************************)
(* Gesture recognition core of the Smartpresentation repository:           *)
(*   - the temporal debouncer of the useGestureDetection hook,             *)
(*   - the keyboard fallback and slide controller of PresentationViewer,   *)
(*   - the landmark path of SmartPresentationWithMediaPipe,                *)
(*   - the sample collector of CalibrationModal.                           *)
(* Times are milliseconds (Date.now()), confidences are percent            *)
(* (0.7 = 70), landmark coordinates are hundredths of the frame (0.1 = 10).*)
(***************************************************************************)
EXTENDS Integers, Sequences, FiniteSets, TLC

\* ------------------------------------------------------------------ bounds
\* Date.now() when the page is mounted; far beyond 1.5 * debounceMs in reality.
StartTime == 2000
\* How long after StartTime the clock is followed.
MaxElapsed == 1700
\* The clock advances in steps of these many milliseconds.
TimeSteps == {100}

\* ------------------------------------------------------------ gesture types
NONE == "NONE"
GestureTypes == {"SWIPE_LEFT", "SWIPE_RIGHT", "OPEN_PALM", "CLOSED_FIST", "POINTING", "THUMB_UP"}
NoTimer == -1
NoCandidate == [gesture |-> NONE, confidence |-> 0, sinceLast |-> 0,
                lastType |-> NONE, accepted |-> FALSE, fed |-> FALSE]

\* Values a caller passes as the debounceMs option (default 800, every caller
\* in the repository passes 800).
DebounceOptions == {800, 1000}
\* Default of the confidenceThreshold option, in percent.
confidenceThreshold == 70
\* Default confidence of processGesture when the caller passes none (0.9).
DefaultConfidence == 90
\* Confidence the keyboard handler passes (1.0).
KeyboardConfidence == 100
\* Confidences a direct caller of processGesture passes.
CallerConfidences == {50, DefaultConfidence}
\* Gestures a direct caller of processGesture passes (GestureType includes null).
CallerGestures == {"SWIPE_LEFT", NONE}
\* Delay of the display-only "clear gesture" timer.
ClearDelayMs == 1500

Keys == {"ArrowLeft", "ArrowRight", "o", "c", "p", "t", "x"}

\* The clock of the presentation components is followed in coarser steps, and
\* for a shorter time.
CoarseSteps == {500}
CoarseElapsed == 1000
\* The observation logs keyActions and mpHandled keep their last entries only.
ObservedActions == 2
\* No gesture has been handed to the controller yet.
NoGestureSeen == [gesture |-> NONE, slideBefore |-> 0, playingBefore |-> FALSE]
\* Number of slides of the mock presentation usePresentation loads.
NumSlides == 5
\* Number of slides of SmartPresentationWithMediaPipe.
NumMpSlides == 4
\* Entries the gesture log keeps (prev.slice(-9) plus the new one).
GestureLogKeep == 10
\* Delay after which SmartPresentationWithMediaPipe forgets the last gesture.
LastGestureClearMs == 1000
\* detectGesture: thumb tip above the wrist by more than 0.1, index tip by more than 0.05.
ThumbMargin == 10
IndexMargin == 5
\* A complete hand has 21 landmarks.
HandLandmarkCount == 21

\* A hand: its landmark count and the y coordinates the code reads (hundredths).
Hand(n, wrist, thumb, index, middle, ring, pinky, curl) ==
  [length |-> n, wristY |-> wrist, thumbTipY |-> thumb,
   indexTipY |-> index, middleTipY |-> middle, ringTipY |-> ring, pinkyTipY |-> pinky,
   indexPipY |-> index - curl, middlePipY |-> middle - curl,
   ringPipY |-> ring - curl, pinkyPipY |-> pinky - curl]

ThumbsUpHand == Hand(21, 50, 20, 60, 60, 60, 60, 5)
PointingHand == Hand(21, 50, 55, 30, 60, 60, 60, 5)
OpenPalmHand == Hand(21, 50, 40, 20, 20, 20, 30, -5)
FistHand == Hand(21, 50, 55, 60, 60, 60, 60, 5)
PartialHand == Hand(20, 50, 20, 60, 60, 60, 60, 5)
ExtraHand == Hand(22, 50, 20, 60, 60, 60, 60, 5)
SampleHands == {ThumbsUpHand, PointingHand, OpenPalmHand, FistHand, PartialHand}
\* multiHandLandmarks of one result: no hand, one hand or two hands.
Frames == {<<>>} \cup {<<h>> : h \in SampleHands}
            \cup {<<ThumbsUpHand, h>> : h \in {ThumbsUpHand, OpenPalmHand}}

VARIABLES
  now,                  \* Date.now()
  \* --- useGestureDetection
  enabled,              \* the enabled option
  debounceMs,           \* the debounceMs option
  lastGestureTimeRef,   \* lastGestureTimeRef.current
  lastGestureTypeRef,   \* lastGestureTypeRef.current
  currentGesture,       \* state currentGesture
  gestureConfidence,    \* state gestureConfidence
  gestureTimeoutRef,    \* deadline of the pending clear timer, or NoTimer
  callbackLog,          \* invocations of onGestureDetected: <<[gesture, confidence, timestamp]>>
  candidate,            \* the candidate processGesture evaluated at the current instant
                        \* and what became of it (NoCandidate once the clock moves on)
  hookHandLandmarks,    \* state handLandmarks of the hook (set by processLandmarks)
  \* --- PresentationViewer
  presentationLoaded,   \* usePresentation has delivered the presentation
  currentSlideIndex,    \* state currentSlideIndex
  isPlaying,            \* useMediaControl().isPlaying
  gestureLogLength,     \* gestureLog.length (the entries are display-only)
  keyActions,           \* the last key presses that caused a slide or media action:
                        \* <<[gesture, timestamp]>>
  \* --- SmartPresentationWithMediaPipe
  controllerSeen,       \* what the latest direct call of handleGestureDetected was given
  mpCurrentSlide,       \* state currentSlide
  mpLastGesture,        \* state lastGesture
  mpHandCount,          \* state handCount
  mpClosure,            \* lastGesture and currentSlide captured by handleMediaPipeResults
  mpTimers,             \* deadlines of the pending setLastGesture(null) timers
  mpHandled,            \* the last calls of handleGesture: <<[gesture, timestamp]>>
  \* --- CalibrationModal
  isOpen,               \* the isOpen prop, as the parent sets it on open and onClose
  handLandmarks,        \* the handLandmarks prop: hands of the latest frame (<<>>: null or empty)
  userHand,             \* the landmark array of the pose the user holds
  currentStep,          \* state currentStep, an index into CALIBRATION_STEPS
  calibrationData,      \* state calibrationData: gesture -> the profile object it refers to
  profileObjects,       \* the profile objects on the heap: object -> its fields
  samplesCollected,     \* state samplesCollected
  isCollecting,         \* state isCollecting
  detectionStatus,      \* state detectionStatus
  collectionIntervalRef,\* samplesCollected as captured by the pending timeout, or NoTimer
  completeCalls,        \* calls of onCalibrationComplete made by the latest handler
  \* --- LiveStreamDetector
  lastXRef,             \* ref lastXRef: the previous centroid, NoX while null
  gestureCooldownRef,   \* ref gestureCooldownRef: frames of cooldown left
  framesSinceSwipe,     \* frames processed since the last swipe, up to CooldownFrames
  trackerSeen,          \* what the latest processFrame read and returned
  \* --- detectGesture
  classified,           \* the hand last given to detectGesture and what came back
  \* --- RobustMediaPipeHands
  cameraStatus,         \* "idle", "initializing", "active" or "error"
  isInitialized,        \* the isInitialized state
  error,                \* the error state: "null", the message of the failure, or the
                        \* max-retries message
  retryCount,           \* the retryCount state
  starting,             \* the startDetection calls awaiting their outcome, each with the
                        \* cameraStatus and retryCount of the render that made it
  retryTimers,          \* the retry timeouts not yet fired, oldest first, each with the
                        \* render values of the startDetection that set it
  retryTimeoutRef,      \* retryTimeoutRef.current: "null", the newest timeout of
                        \* retryTimers ("pending") or one that has fired ("fired")
  retrySeen             \* the retries made by a timeout since the last start by the
                        \* mount effect or a button, and whether a button started

hookVars == <<enabled, debounceMs, lastGestureTimeRef, lastGestureTypeRef, currentGesture,
              gestureConfidence, gestureTimeoutRef, callbackLog, candidate, hookHandLandmarks>>

viewerVars == <<presentationLoaded, currentSlideIndex, isPlaying, gestureLogLength, keyActions,
                controllerSeen>>

mpVars == <<mpCurrentSlide, mpLastGesture, mpHandCount, mpClosure, mpTimers, mpHandled>>

calVars == <<isOpen, handLandmarks, userHand, currentStep, calibrationData, profileObjects,
             samplesCollected, isCollecting, detectionStatus, collectionIntervalRef,
             completeCalls>>

trackerVars == <<lastXRef, gestureCooldownRef, framesSinceSwipe, trackerSeen>>

retryVars == <<cameraStatus, isInitialized, error, retryCount, starting, retryTimers,
               retryTimeoutRef, retrySeen>>

vars == <<now, hookVars, viewerVars, mpVars, calVars, trackerVars, classified, retryVars>>

\* ------------------------------------------------------- useGestureDetection
\* switch (e.key.toLowerCase()) of the hook's keyboard handler.
KeyToGesture(key) ==
  CASE key = "ArrowLeft" -> "SWIPE_LEFT"
    [] key = "ArrowRight" -> "SWIPE_RIGHT"
    [] key = "o" -> "OPEN_PALM"
    [] key = "c" -> "CLOSED_FIST"
    [] key = "p" -> "POINTING"
    [] key = "t" -> "THUMB_UP"
    [] OTHER -> NONE

\* Mutant: the plain debounce window applied to a repeat of the same gesture only.
DebouncedSameOnly(gesture, t) ==
  gesture = lastGestureTypeRef /\ t - lastGestureTimeRef < debounceMs

\* Mutant: the plain debounce window taken as half of debounceMs.
DebouncedHalf(gesture, t) ==
  2 * (t - lastGestureTimeRef) < debounceMs

\* if (now - lastGestureTimeRef.current < debounceMs) return
Debounced(gesture, t) ==
  t - lastGestureTimeRef < debounceMs

\* Mutant: the extended same-gesture window left out.
SameGestureNeverDebounced(gesture, t) ==
  FALSE

\* Mutant: the extended same-gesture window taken as 2 x debounceMs.
SameGestureDebouncedDouble(gesture, t) ==
  gesture = lastGestureTypeRef /\ t - lastGestureTimeRef < 2 * debounceMs

\* if (gesture === lastGestureTypeRef.current && now - last < debounceMs * 1.5) return
SameGestureDebounced(gesture, t) ==
  gesture = lastGestureTypeRef /\ 2 * (t - lastGestureTimeRef) < 3 * debounceMs

Accepted(gesture, t) ==
  ~Debounced(gesture, t) /\ ~SameGestureDebounced(gesture, t)

\* processGesture, a dropped candidate restarting the debounce window.
processGestureExtending(gesture, confidence) ==
  /\ candidate' = [gesture |-> gesture, confidence |-> confidence,
                   sinceLast |-> now - lastGestureTimeRef, lastType |-> lastGestureTypeRef,
                   accepted |-> Accepted(gesture, now), fed |-> TRUE]
  /\ IF Accepted(gesture, now)
       THEN /\ lastGestureTimeRef' = now
            /\ lastGestureTypeRef' = gesture
            /\ currentGesture' = gesture
            /\ gestureConfidence' = confidence
            /\ callbackLog' = Append(callbackLog,
                 [gesture |-> gesture, confidence |-> confidence, timestamp |-> now])
            /\ gestureTimeoutRef' = now + ClearDelayMs
       ELSE /\ lastGestureTimeRef' = now
            /\ UNCHANGED <<lastGestureTypeRef, currentGesture, gestureConfidence,
                           callbackLog, gestureTimeoutRef>>
  /\ UNCHANGED <<now, enabled, debounceMs, hookHandLandmarks, viewerVars, mpVars, calVars,
                 trackerVars, classified, retryVars>>

\* processGesture(gesture, confidence) called at time now.
processGesture(gesture, confidence) ==
  /\ candidate' = [gesture |-> gesture, confidence |-> confidence,
                   sinceLast |-> now - lastGestureTimeRef, lastType |-> lastGestureTypeRef,
                   accepted |-> Accepted(gesture, now), fed |-> TRUE]
  /\ IF Accepted(gesture, now)
       THEN /\ lastGestureTimeRef' = now
            /\ lastGestureTypeRef' = gesture
            /\ currentGesture' = gesture
            /\ gestureConfidence' = confidence
            /\ callbackLog' = Append(callbackLog,
                 [gesture |-> gesture, confidence |-> confidence, timestamp |-> now])
            /\ gestureTimeoutRef' = now + ClearDelayMs
       ELSE UNCHANGED <<lastGestureTimeRef, lastGestureTypeRef, currentGesture,
                        gestureConfidence, callbackLog, gestureTimeoutRef>>
  /\ UNCHANGED <<now, enabled, debounceMs, hookHandLandmarks, viewerVars, mpVars, calVars,
                 trackerVars, classified, retryVars>>

\* A component calls the processGesture the hook returns.
ProcessGestureCall ==
  \E g \in CallerGestures, c \in CallerConfidences : processGesture(g, c)

\* keydown on the document while the hook is enabled.
HookKeyDown ==
  /\ enabled
  /\ \E key \in Keys :
       IF KeyToGesture(key) # NONE
         THEN processGesture(KeyToGesture(key), KeyboardConfidence)
         ELSE UNCHANGED vars

\* The timer set by an accepted gesture fires: the displayed gesture is cleared.
ClearGestureTimeout ==
  /\ gestureTimeoutRef # NoTimer
  /\ now >= gestureTimeoutRef
  /\ currentGesture' = NONE
  /\ gestureConfidence' = 0
  /\ gestureTimeoutRef' = NoTimer
  /\ UNCHANGED <<now, enabled, debounceMs, lastGestureTimeRef, lastGestureTypeRef,
                 callbackLog, candidate, hookHandLandmarks, viewerVars, mpVars, calVars,
                 trackerVars, classified, retryVars>>

\* Date.now() moves on by one of the given steps.
TickBy(steps, horizon) ==
  /\ \E d \in steps :
       /\ now + d <= StartTime + horizon
       /\ now' = now + d
  /\ candidate' = NoCandidate
  /\ UNCHANGED <<enabled, debounceMs, lastGestureTimeRef, lastGestureTypeRef, currentGesture,
                 gestureConfidence, gestureTimeoutRef, callbackLog, hookHandLandmarks,
                 viewerVars, mpVars, calVars, trackerVars, classified, retryVars>>

Tick == TickBy(TimeSteps, MaxElapsed)

CoarseTick == TickBy(CoarseSteps, CoarseElapsed)

InitHook ==
  /\ enabled \in BOOLEAN
  /\ debounceMs \in DebounceOptions
  /\ lastGestureTimeRef = 0
  /\ lastGestureTypeRef = NONE
  /\ currentGesture = NONE
  /\ gestureConfidence = 0
  /\ gestureTimeoutRef = NoTimer
  /\ callbackLog = <<>>
  /\ candidate = NoCandidate
  /\ hookHandLandmarks = <<>>

InitViewer ==
  /\ presentationLoaded = FALSE
  /\ currentSlideIndex = 0
  /\ isPlaying = FALSE
  /\ gestureLogLength = 0
  /\ keyActions = <<>>
  /\ controllerSeen = NoGestureSeen

InitMediaPipe ==
  /\ mpCurrentSlide = 0
  /\ mpLastGesture = NONE
  /\ mpHandCount = 0
  /\ mpClosure = [lastGesture |-> NONE, currentSlide |-> 0]
  /\ mpTimers = {}
  /\ mpHandled = <<>>

\* ----------------------------------------------------------- CalibrationModal
\* const samplesNeeded = 10
samplesNeeded == 10
\* Samples folded into one gesture's profile before the camera stops seeing the hand.
MaxSamples == 11
\* CALIBRATION_STEPS: the gesture of each step ("" where the step has none).
NoGesture == ""
CALIBRATION_STEPS == <<NoGesture, "thumbUp", "pinkyUp", "openPalm", "closedFist", "pointing",
                       NoGesture>>
CalGestures == {"thumbUp", "pinkyUp", "openPalm", "closedFist", "pointing"}
\* The landmark arrays the camera delivers while calibrating, by reference.
Landmarks(ref) ==
  CASE ref = "thumbsUpFrame" -> ThumbsUpHand
    [] ref = "openPalmFrame" -> OpenPalmHand
    [] ref = "partialFrame" -> PartialHand
    [] ref = "extraFrame" -> ExtraHand
\* Poses a user may hold while calibrating.
UserHands == {"thumbsUpFrame", "openPalmFrame"}

\* Exact fractions n/d in lowest terms stand for the JavaScript numbers.
RECURSIVE GCD(_, _)
GCD(a, b) == IF b = 0 THEN a ELSE GCD(b, a % b)
Abs(x) == IF x < 0 THEN -x ELSE x
Rat(n, d) ==
  LET g == GCD(Abs(n), Abs(d)) IN
    IF d < 0 THEN [n |-> -n \div g, d |-> -d \div g] ELSE [n |-> n \div g, d |-> d \div g]
Whole(x) == [n |-> x, d |-> 1]

\* EMPTY_CALIBRATION_DATA: the fields of each of its five profile objects.
EmptyProfile(gesture) ==
  CASE gesture = "thumbUp" ->
         [samples |-> <<>>, thumbExtension |-> Whole(0), thumbTipY |-> Whole(0),
          wristY |-> Whole(0)]
    [] gesture = "pinkyUp" ->
         [samples |-> <<>>, pinkyExtension |-> Whole(0), pinkyTipY |-> Whole(0),
          wristY |-> Whole(0)]
    [] gesture = "openPalm" ->
         [samples |-> <<>>, fingerExtensions |-> <<Whole(0), Whole(0), Whole(0), Whole(0)>>]
    [] gesture = "closedFist" ->
         [samples |-> <<>>, fingerCurls |-> <<Whole(0), Whole(0), Whole(0), Whole(0)>>]
    [] gesture = "pointing" ->
         [samples |-> <<>>, indexExtension |-> Whole(0)]

\* EMPTY_CALIBRATION_DATA[gesture]: the object itself; the constant holds one profile
\* object per gesture, named here after the gesture.
EMPTY_CALIBRATION_DATA(gesture) == gesture

InitCalibration(hands) ==
  /\ isOpen = TRUE
  /\ handLandmarks = <<>>
  /\ userHand \in hands
  /\ currentStep = 0
  /\ calibrationData = [g \in CalGestures |-> EMPTY_CALIBRATION_DATA(g)]
  /\ profileObjects = [g \in CalGestures |-> EmptyProfile(g)]
  /\ samplesCollected = 0
  /\ isCollecting = FALSE
  /\ detectionStatus = "waiting"
  /\ collectionIntervalRef = NoTimer
  /\ completeCalls = 0

\* --------------------------------------------------------- LiveStreamDetector
\* width = 640: the pixels of one canvas row.
canvasWidth == 640
\* for (...; i += 4 * 40): every 40th pixel is sampled.
SampleStride == 40
\* Sampled pixels of one frame (a canvas of one row).
SampledPixels == 16
\* if (brightness > 100)
BrightnessThreshold == 100
\* if (count < 10) return "none"
MinBrightCount == 10
\* if (Math.abs(delta) > 50)
SwipeThreshold == 50
\* gestureCooldownRef.current = 20
CooldownFrames == 20
\* lastXRef.current === null
NoX == [n |-> 0, d |-> 0]
\* Nothing processed yet.
NoFrameSeen == [fed |-> FALSE, count |-> 0, avgX |-> NoX, lastX |-> NoX, cooldown |-> 0,
                since |-> 0, gesture |-> "none", viewerGesture |-> NONE]

\* Pixels (r, g, b): brightness 0, exactly 100, just above 100, 255.
BlackPixel == <<0, 0, 0>>
DimPixel == <<100, 100, 100>>
BrightPixel == <<101, 100, 100>>
WhitePixel == <<255, 255, 255>>

\* The sampled pixels of a frame: `lit` at the sampled positions in `hand`, `fill` elsewhere.
ImageData(hand, lit, fill) ==
  [k \in 0 .. SampledPixels - 1 |-> IF k \in hand THEN lit ELSE fill]

\* Frames the camera delivers: no hand, nine bright samples, and hands whose centroids
\* are 180, 230, 232.7 and 420 px.
VideoFrames ==
  { ImageData({}, WhitePixel, BlackPixel),
    ImageData(0 .. 8, WhitePixel, DimPixel),
    ImageData(0 .. 9, BrightPixel, DimPixel),
    ImageData((0 .. 10) \cup {14}, WhitePixel, BlackPixel),
    ImageData((0 .. 8) \cup {13, 15}, WhitePixel, DimPixel),
    ImageData(6 .. 15, WhitePixel, BlackPixel) }

InitTracker ==
  /\ lastXRef = NoX
  /\ gestureCooldownRef = 0
  /\ framesSinceSwipe = CooldownFrames
  /\ trackerSeen = NoFrameSeen

\* -------------------------------------------------------------- detectGesture
\* detectGesture returns a label or null and nothing else: there is no confidence.
NoConfidence == -1
\* y coordinates of a finger tip: 0.3, 0.1 and 0.05 above the wrist, on the wrist
\* line, 0.1 below it (the wrist is at 0.5).
TipYs == {20, 40, 45, 50, 60}
\* Landmark counts of the hands given to detectGesture.
LandmarkCounts == {HandLandmarkCount - 1, HandLandmarkCount, HandLandmarkCount + 1}
\* The hands given to detectGesture.
ClassifierHands ==
  { Hand(n, 50, thumb, index, middle, ring, pinky, curl) :
      n \in LandmarkCounts, thumb \in TipYs, index \in TipYs, middle \in {20, 50, 60},
      ring \in {20, 60}, pinky \in {20, 60}, curl \in {-5, 5} }
NoClassification == [fed |-> FALSE, hand |-> FistHand, gesture |-> NONE,
                     confidence |-> NoConfidence]

InitClassifier == classified = NoClassification

\* ------------------------------------------------------- RobustMediaPipeHands
\* if (retryCount < 2)
MaxAutoRetries == 2
\* Math.min(2000 * Math.pow(2, retryCount), 8000)
BaseDelayMs == 2000
MaxDelayMs == 8000
\* retryCount is followed up to this value.
MaxRetryCount == 4
\* startDetection calls and retry timeouts outstanding at one time.
MaxPending == 2
\* What a startDetection of some render reads: cameraStatus and retryCount.
Render(status, count) == [cameraStatus |-> status, retryCount |-> count]
Delay(render) ==
  IF BaseDelayMs * 2 ^ render.retryCount < MaxDelayMs
    THEN BaseDelayMs * 2 ^ render.retryCount
    ELSE MaxDelayMs
RemoveAt(seq, i) == SubSeq(seq, 1, i - 1) \o SubSeq(seq, i + 1, Len(seq))

\* Mounted: the effect has found cameraStatus idle and called startDetection.
InitRetry ==
  /\ cameraStatus = "initializing"
  /\ isInitialized = FALSE
  /\ error = "null"
  /\ retryCount = 1
  /\ starting = <<Render("idle", 0)>>
  /\ retryTimers = <<>>
  /\ retryTimeoutRef = "null"
  /\ retrySeen = [auto |-> 0, manual |-> FALSE]

Init ==
  /\ now = StartTime
  /\ InitHook
  /\ InitViewer
  /\ InitMediaPipe
  /\ InitCalibration({"thumbsUpFrame"})
  /\ InitTracker
  /\ InitClassifier
  /\ InitRetry

Next ==
  \/ Tick
  \/ ProcessGestureCall
  \/ HookKeyDown
  \/ ClearGestureTimeout

Spec == Init /\ [][Next]_vars

\* -------------------------------------------------------- PresentationViewer
ViewerKeys == {"ArrowLeft", "ArrowRight", "o", "O", "c", "p", "t", "x"}

\* switch (e.key) of the keyboard fallback.
ViewerKeyToGesture(key) ==
  CASE key = "ArrowLeft" -> "SWIPE_LEFT"
    [] key = "ArrowRight" -> "SWIPE_RIGHT"
    [] key \in {"o", "O"} -> "OPEN_PALM"
    [] key \in {"c", "C"} -> "CLOSED_FIST"
    [] key \in {"p", "P"} -> "POINTING"
    [] key \in {"t", "T"} -> "THUMB_UP"
    [] OTHER -> NONE

\* seq.slice(-k)
LastN(seq, k) ==
  IF Len(seq) <= k THEN seq ELSE SubSeq(seq, Len(seq) - k + 1, Len(seq))

\* Length of [...prev.slice(-9), entry]
LogLengthAfter(length) ==
  (IF length <= GestureLogKeep - 1 THEN length ELSE GestureLogKeep - 1) + 1

\* The slide index after a gesture, without the test for the last slide.
SlideAfterUnbounded(gesture, index) ==
  CASE gesture = "SWIPE_LEFT" -> IF index > 0 THEN index - 1 ELSE index
    [] gesture = "SWIPE_RIGHT" -> index + 1
    [] OTHER -> index

\* The slide index handleGestureDetected leaves for a gesture.
SlideAfter(gesture, index) ==
  CASE gesture = "SWIPE_LEFT" -> IF index > 0 THEN index - 1 ELSE index
    [] gesture = "SWIPE_RIGHT" -> IF index < NumSlides - 1 THEN index + 1 ELSE index
    [] OTHER -> index

\* isPlaying after a gesture, with OPEN_PALM toggling instead of playing.
PlayingAfterToggle(gesture, playing) ==
  CASE gesture = "OPEN_PALM" -> ~playing
    [] gesture = "CLOSED_FIST" -> FALSE
    [] OTHER -> playing

\* isPlaying after handleGestureDetected: handleMediaControl("play" / "pause").
PlayingAfter(gesture, playing) ==
  CASE gesture = "OPEN_PALM" -> TRUE
    [] gesture = "CLOSED_FIST" -> FALSE
    [] OTHER -> playing

\* handleGestureDetected(gesture, confidence) at time now.
handleGestureDetected(gesture) ==
  IF ~presentationLoaded \/ gesture = NONE
    THEN UNCHANGED <<currentSlideIndex, isPlaying, gestureLogLength>>
    ELSE /\ gestureLogLength' = LogLengthAfter(gestureLogLength)
         /\ currentSlideIndex' = SlideAfter(gesture, currentSlideIndex)
         /\ isPlaying' = PlayingAfter(gesture, isPlaying)

\* The gesture caused a slide change or a media action.
Acted(gesture, index) ==
  SlideAfter(gesture, index) # index \/ gesture \in {"OPEN_PALM", "CLOSED_FIST"}

\* handleGestureDetected(gesture, confidence) called by a gesture source with any
\* GestureType or null.
GestureDetected ==
  /\ \E gesture \in GestureTypes \cup {NONE} :
       /\ handleGestureDetected(gesture)
       /\ controllerSeen' = [gesture |-> IF presentationLoaded THEN gesture ELSE NONE,
                             slideBefore |-> currentSlideIndex,
                             playingBefore |-> isPlaying]
  /\ UNCHANGED <<now, presentationLoaded, keyActions, hookVars, mpVars, calVars,
                 trackerVars, classified, retryVars>>

\* keydown on the document: the keyboard fallback calls handleGestureDetected directly.
ViewerKeyDown ==
  /\ presentationLoaded
  /\ \E key \in ViewerKeys :
       LET gesture == ViewerKeyToGesture(key) IN
         /\ handleGestureDetected(gesture)
         /\ keyActions' =
              IF Acted(gesture, currentSlideIndex)
                THEN LastN(Append(keyActions, [gesture |-> gesture, timestamp |-> now]),
                           ObservedActions)
                ELSE keyActions
  /\ UNCHANGED <<now, presentationLoaded, controllerSeen, hookVars, mpVars, calVars,
                 trackerVars, classified, retryVars>>

\* usePresentation resolves with the mock presentation.
LoadPresentation ==
  /\ ~presentationLoaded
  /\ presentationLoaded' = TRUE
  /\ UNCHANGED <<now, currentSlideIndex, isPlaying, gestureLogLength, keyActions,
                 controllerSeen, hookVars,
                 mpVars, calVars, trackerVars, classified, retryVars>>

\* The Previous button (disabled on the first slide).
goToPreviousSlide ==
  /\ presentationLoaded
  /\ currentSlideIndex > 0
  /\ currentSlideIndex' = currentSlideIndex - 1
  /\ UNCHANGED <<now, presentationLoaded, isPlaying, gestureLogLength, keyActions,
                 controllerSeen, hookVars,
                 mpVars, calVars, trackerVars, classified, retryVars>>

\* The Next button (disabled on the last slide).
goToNextSlide ==
  /\ presentationLoaded
  /\ currentSlideIndex < NumSlides - 1
  /\ currentSlideIndex' = currentSlideIndex + 1
  /\ UNCHANGED <<now, presentationLoaded, isPlaying, gestureLogLength, keyActions,
                 controllerSeen, hookVars,
                 mpVars, calVars, trackerVars, classified, retryVars>>

\* A button of the ControlPanel slide navigator.
NavigatorClick ==
  /\ presentationLoaded
  /\ \E index \in 0 .. NumSlides - 1 : currentSlideIndex' = index
  /\ UNCHANGED <<now, presentationLoaded, isPlaying, gestureLogLength, keyActions,
                 controllerSeen, hookVars,
                 mpVars, calVars, trackerVars, classified, retryVars>>

\* The play / pause button: handleMediaControl(isPlaying ? "pause" : "play").
MediaButton ==
  /\ presentationLoaded
  /\ isPlaying' = ~isPlaying
  /\ UNCHANGED <<now, presentationLoaded, currentSlideIndex, gestureLogLength, keyActions,
                 controllerSeen, hookVars, mpVars, calVars, trackerVars, classified, retryVars>>

\* clearGestureLog
clearGestureLog ==
  /\ presentationLoaded
  /\ gestureLogLength' = 0
  /\ UNCHANGED <<now, presentationLoaded, currentSlideIndex, isPlaying, keyActions,
                 controllerSeen, hookVars, mpVars, calVars, trackerVars, classified, retryVars>>

NextViewer ==
  \/ CoarseTick
  \/ LoadPresentation
  \/ ViewerKeyDown
  \/ goToPreviousSlide
  \/ goToNextSlide
  \/ NavigatorClick
  \/ MediaButton
  \/ clearGestureLog

\* The components are mounted with the debounceMs every caller passes.
InitMounted == Init /\ debounceMs = 800

SpecViewer == InitMounted /\ [][NextViewer]_vars

\* The slide and media controller alone: gestures, the Previous / Next buttons and
\* the play / pause button.
NextController ==
  \/ LoadPresentation
  \/ GestureDetected
  \/ goToPreviousSlide
  \/ goToNextSlide
  \/ MediaButton

\* PresentationViewer mounted; the hook's options play no part here.
InitController == InitMounted /\ enabled

SpecController == InitController /\ [][NextController]_vars

\* ------------------------------------------- SmartPresentationWithMediaPipe
\* detectGesture(landmarks); NONE stands for null.
detectGesture(h) ==
  IF h.length < HandLandmarkCount THEN NONE
  ELSE IF /\ h.thumbTipY < h.wristY - ThumbMargin
          /\ h.indexTipY > h.wristY
          /\ h.middleTipY > h.wristY
         THEN "thumbs_up"
  ELSE IF /\ h.indexTipY < h.wristY - IndexMargin
          /\ h.middleTipY > h.wristY
          /\ h.ringTipY > h.wristY
          /\ h.pinkyTipY > h.wristY
         THEN "pointing"
  ELSE IF /\ h.thumbTipY < h.wristY
          /\ h.indexTipY < h.wristY
          /\ h.middleTipY < h.wristY
          /\ h.ringTipY < h.wristY
          /\ h.pinkyTipY < h.wristY
         THEN "open_palm"
  ELSE NONE

\* The slide handleGesture sets; nextSlide / previousSlide read the currentSlide of
\* the render that created the callback.
MpSlideAfter(gesture, closureSlide, slide) ==
  CASE gesture = "thumbs_up" ->
         IF closureSlide < NumMpSlides - 1 THEN closureSlide + 1 ELSE slide
    [] gesture = "open_palm" ->
         IF closureSlide > 0 THEN closureSlide - 1 ELSE slide
    [] OTHER -> slide

\* The for loop of handleMediaPipeResults over the hands from position i on; acc is
\* the state the setters have been given so far.
RECURSIVE MpLoop(_, _, _)
MpLoop(hands, i, acc) ==
  IF i > Len(hands) THEN acc
  ELSE LET gesture == detectGesture(hands[i]) IN
    IF gesture # NONE /\ gesture # mpClosure.lastGesture
      THEN MpLoop(hands, i + 1,
             [lastGesture |-> gesture,
              slide |-> MpSlideAfter(gesture, mpClosure.currentSlide, acc.slide),
              handled |-> Append(acc.handled, [gesture |-> gesture, timestamp |-> now])])
      ELSE MpLoop(hands, i + 1, acc)

\* useCallback(..., [lastGesture]): a new callback only when lastGesture changed.
MpClosureAfter(lastGesture, slide) ==
  IF lastGesture # mpLastGesture
    THEN [lastGesture |-> lastGesture, currentSlide |-> slide]
    ELSE mpClosure

\* handleMediaPipeResults(results) with results.multiHandLandmarks = hands.
handleMediaPipeResults ==
  \E hands \in Frames :
    LET out == MpLoop(hands, 1, [lastGesture |-> mpLastGesture, slide |-> mpCurrentSlide,
                                 handled |-> <<>>]) IN
      /\ mpHandCount' = Len(hands)
      /\ mpLastGesture' = out.lastGesture
      /\ mpCurrentSlide' = out.slide
      /\ mpHandled' = LastN(mpHandled \o out.handled, ObservedActions)
      /\ mpTimers' = IF out.handled = <<>> THEN mpTimers
                     ELSE mpTimers \cup {now + LastGestureClearMs}
      /\ mpClosure' = MpClosureAfter(out.lastGesture, out.slide)
      /\ UNCHANGED <<now, hookVars, viewerVars, calVars, trackerVars, classified, retryVars>>

\* handleMediaPipeResults(results) without multiHandLandmarks.
MpNoLandmarks ==
  /\ mpHandCount' = 0
  /\ UNCHANGED <<now, mpCurrentSlide, mpLastGesture, mpClosure, mpTimers, mpHandled,
                 hookVars, viewerVars, calVars, trackerVars, classified, retryVars>>

\* setTimeout(() => setLastGesture(null), 1000) fires.
MpClearLastGesture ==
  \E t \in mpTimers :
    /\ now >= t
    /\ mpTimers' = mpTimers \ {t}
    /\ mpLastGesture' = NONE
    /\ mpClosure' = MpClosureAfter(NONE, mpCurrentSlide)
    /\ UNCHANGED <<now, mpCurrentSlide, mpHandCount, mpHandled, hookVars, viewerVars, calVars,
                   trackerVars, classified, retryVars>>

\* The Next button: nextSlide() of the current render.
MpNextButton ==
  /\ mpCurrentSlide < NumMpSlides - 1
  /\ mpCurrentSlide' = mpCurrentSlide + 1
  /\ UNCHANGED <<now, mpLastGesture, mpHandCount, mpClosure, mpTimers, mpHandled,
                 hookVars, viewerVars, calVars, trackerVars, classified, retryVars>>

\* The Previous button: previousSlide() of the current render.
MpPreviousButton ==
  /\ mpCurrentSlide > 0
  /\ mpCurrentSlide' = mpCurrentSlide - 1
  /\ UNCHANGED <<now, mpLastGesture, mpHandCount, mpClosure, mpTimers, mpHandled,
                 hookVars, viewerVars, calVars, trackerVars, classified, retryVars>>

\* processLandmarks(landmarks) of useGestureDetection (called by MediaPipeWebcam).
processLandmarks ==
  /\ \E hands \in Frames :
       hookHandLandmarks' = IF ~enabled \/ Len(hands) = 0 THEN <<>> ELSE hands
  /\ UNCHANGED <<now, enabled, debounceMs, lastGestureTimeRef, lastGestureTypeRef,
                 currentGesture, gestureConfidence, gestureTimeoutRef, callbackLog,
                 candidate, viewerVars, mpVars, calVars, trackerVars, classified, retryVars>>

NextLandmarks ==
  \/ CoarseTick
  \/ handleMediaPipeResults
  \/ MpNoLandmarks
  \/ MpClearLastGesture
  \/ MpNextButton
  \/ MpPreviousButton
  \/ processLandmarks

SpecLandmarks == InitMounted /\ [][NextLandmarks]_vars

\* ----------------------------------------------------------- CalibrationModal
\* const currentGesture = CALIBRATION_STEPS[currentStep]?.gesture
StepGesture(step) == CALIBRATION_STEPS[step + 1]
LastStep == Len(CALIBRATION_STEPS) - 1
IsGestureStep(step) == step > 0 /\ step < LastStep

\* (average * samples.length + sample) / (samples.length + 1)
RunningAverage(average, length, sample) ==
  Rat(average.n * length + sample * average.d, average.d * (length + 1))

\* The updater of the sample effect for one gesture: the landmarks are pushed first,
\* so every average below reads samples.length after the push.
AddSample(gesture, profile, ref) ==
  LET landmarks == Landmarks(ref)
      samples == Append(profile.samples, ref)
      length == Len(samples)
      fingerExtensions == <<landmarks.wristY - landmarks.indexTipY,
                            landmarks.wristY - landmarks.middleTipY,
                            landmarks.wristY - landmarks.ringTipY,
                            landmarks.wristY - landmarks.pinkyTipY>>
      fingerCurls == <<landmarks.indexTipY - landmarks.indexPipY,
                       landmarks.middleTipY - landmarks.middlePipY,
                       landmarks.ringTipY - landmarks.ringPipY,
                       landmarks.pinkyTipY - landmarks.pinkyPipY>>
  IN CASE gesture = "thumbUp" ->
            [samples |-> samples,
             thumbExtension |-> RunningAverage(profile.thumbExtension, length,
                                               landmarks.wristY - landmarks.thumbTipY),
             thumbTipY |-> RunningAverage(profile.thumbTipY, length, landmarks.thumbTipY),
             wristY |-> RunningAverage(profile.wristY, length, landmarks.wristY)]
       [] gesture = "pinkyUp" ->
            [samples |-> samples,
             pinkyExtension |-> RunningAverage(profile.pinkyExtension, length,
                                               landmarks.wristY - landmarks.pinkyTipY),
             pinkyTipY |-> RunningAverage(profile.pinkyTipY, length, landmarks.pinkyTipY),
             wristY |-> RunningAverage(profile.wristY, length, landmarks.wristY)]
       [] gesture = "openPalm" ->
            [samples |-> samples,
             fingerExtensions |->
               IF Len(profile.fingerExtensions) = 0
                 THEN [i \in 1..4 |-> Whole(fingerExtensions[i])]
                 ELSE [i \in 1..4 |-> RunningAverage(profile.fingerExtensions[i], length,
                                                     fingerExtensions[i])]]
       [] gesture = "closedFist" ->
            [samples |-> samples,
             fingerCurls |->
               IF Len(profile.fingerCurls) = 0
                 THEN [i \in 1..4 |-> Whole(fingerCurls[i])]
                 ELSE [i \in 1..4 |-> RunningAverage(profile.fingerCurls[i], length,
                                                     fingerCurls[i])]]
       [] gesture = "pointing" ->
            [samples |-> samples,
             indexExtension |-> RunningAverage(profile.indexExtension, length,
                                               landmarks.wristY - landmarks.indexTipY)]

\* The guards of the sample effect, with the partial-hand guard left out.
SampleIgnoredUnlessCollecting(hands, collecting, gesture) ==
  \/ ~collecting
  \/ hands = <<>>
  \/ gesture = NoGesture

\* The guards of the sample effect: not collecting, no hand, no gesture on this step,
\* or a first hand of fewer than 21 landmarks.
SampleIgnored(hands, collecting, gesture) ==
  \/ ~collecting
  \/ hands = <<>>
  \/ gesture = NoGesture
  \/ Landmarks(hands[1]).length < HandLandmarkCount

\* The sample target test, passing one sample late.
EnoughSamplesLate(newCount) == newCount > samplesNeeded

\* if (newCount >= samplesNeeded)
EnoughSamples(newCount) == newCount >= samplesNeeded

\* The sample effect, reaching the sample target without clearing the timeout.
CollectSampleKeepingTimer(hands, collecting, count, status, timer) ==
  LET gesture == StepGesture(currentStep) IN
    IF SampleIgnored(hands, collecting, gesture)
      THEN /\ profileObjects' = profileObjects
           /\ samplesCollected' = count
           /\ isCollecting' = collecting
           /\ detectionStatus' = status
           /\ collectionIntervalRef' = timer
      ELSE LET object == calibrationData[gesture]
               newCount == count + 1
           IN /\ Len(profileObjects[object].samples) < MaxSamples
              /\ profileObjects' =
                   [profileObjects EXCEPT ![object] = AddSample(gesture, @, hands[1])]
              /\ samplesCollected' = newCount
              /\ collectionIntervalRef' = timer
              /\ IF EnoughSamples(newCount)
                   THEN /\ isCollecting' = FALSE
                        /\ detectionStatus' = "success"
                   ELSE /\ isCollecting' = collecting
                        /\ detectionStatus' = status

\* The sample effect, run with the frame `hands` after the handler of this step has set
\* isCollecting, samplesCollected, detectionStatus and the timeout to the given values.
CollectSample(hands, collecting, count, status, timer) ==
  LET gesture == StepGesture(currentStep) IN
    IF SampleIgnored(hands, collecting, gesture)
      THEN /\ profileObjects' = profileObjects
           /\ samplesCollected' = count
           /\ isCollecting' = collecting
           /\ detectionStatus' = status
           /\ collectionIntervalRef' = timer
      ELSE LET object == calibrationData[gesture]
               newCount == count + 1
           IN /\ Len(profileObjects[object].samples) < MaxSamples
              /\ profileObjects' =
                   [profileObjects EXCEPT ![object] = AddSample(gesture, @, hands[1])]
              /\ samplesCollected' = newCount
              /\ IF EnoughSamples(newCount)
                   THEN /\ isCollecting' = FALSE
                        /\ collectionIntervalRef' = NoTimer
                        /\ detectionStatus' = "success"
                   ELSE /\ isCollecting' = collecting
                        /\ collectionIntervalRef' = timer
                        /\ detectionStatus' = status

\* The frames the camera can deliver while the user holds the pose.
CalFrames == {<<>>, <<"partialFrame">>, <<userHand>>}

\* A new handLandmarks prop arrives: the sample effect runs again.
NewLandmarks ==
  /\ \E hands \in CalFrames :
       /\ handLandmarks' = hands
       /\ CollectSample(hands, isCollecting, samplesCollected, detectionStatus,
                        collectionIntervalRef)
  /\ completeCalls' = 0
  /\ UNCHANGED <<now, isOpen, userHand, currentStep, calibrationData,
                 hookVars, viewerVars, mpVars, trackerVars, classified, retryVars>>

\* "Start Calibration": when isCollecting turns true the sample effect runs with the
\* frame that is already there (it does not run when isCollecting stays true).  The
\* timeout keeps the samplesCollected of this render.
startCollecting ==
  /\ isOpen
  /\ IsGestureStep(currentStep)
  /\ detectionStatus = "waiting"
  /\ CollectSample(IF isCollecting THEN <<>> ELSE handLandmarks,
                   TRUE, 0, "detecting", samplesCollected)
  /\ completeCalls' = 0
  /\ UNCHANGED <<now, isOpen, handLandmarks, userHand, currentStep, calibrationData, hookVars,
                 viewerVars, mpVars, trackerVars, classified, retryVars>>

\* "Cancel Collection": the button calls stopCollecting and nothing else.
stopCollecting ==
  /\ isOpen
  /\ IsGestureStep(currentStep)
  /\ detectionStatus = "detecting"
  /\ isCollecting' = FALSE
  /\ collectionIntervalRef' = NoTimer
  /\ completeCalls' = 0
  /\ UNCHANGED <<now, isOpen, handLandmarks, userHand, currentStep, calibrationData,
                 profileObjects, samplesCollected, detectionStatus,
                 hookVars, viewerVars, mpVars, trackerVars, classified, retryVars>>

\* The timeout firing without stopping the collection.
CollectionTimeoutStillCollecting ==
  /\ collectionIntervalRef # NoTimer
  /\ detectionStatus' = "error"
  /\ collectionIntervalRef' = NoTimer
  /\ completeCalls' = 0
  /\ UNCHANGED <<now, isOpen, handLandmarks, userHand, currentStep, calibrationData,
                 profileObjects, samplesCollected, isCollecting,
                 hookVars, viewerVars, mpVars, trackerVars, classified, retryVars>>

\* The timeout firing and dropping what the step's gesture has collected.
CollectionTimeoutClearing ==
  /\ collectionIntervalRef # NoTimer
  /\ isCollecting' = FALSE
  /\ detectionStatus' = "error"
  /\ collectionIntervalRef' = NoTimer
  /\ completeCalls' = 0
  /\ profileObjects' =
       IF StepGesture(currentStep) = NoGesture THEN profileObjects
       ELSE [profileObjects EXCEPT ![calibrationData[StepGesture(currentStep)]] =
               EmptyProfile(StepGesture(currentStep))]
  /\ UNCHANGED <<now, isOpen, handLandmarks, userHand, currentStep, calibrationData,
                 samplesCollected, hookVars, viewerVars, mpVars, trackerVars,
                 classified, retryVars>>

\* The 10 s timeout set by startCollecting fires.
CollectionTimeout ==
  /\ collectionIntervalRef # NoTimer
  /\ IF collectionIntervalRef < samplesNeeded
       THEN /\ isCollecting' = FALSE
            /\ detectionStatus' = "error"
       ELSE UNCHANGED <<isCollecting, detectionStatus>>
  /\ collectionIntervalRef' = NoTimer
  /\ completeCalls' = 0
  /\ UNCHANGED <<now, isOpen, handLandmarks, userHand, currentStep, calibrationData,
                 profileObjects, samplesCollected,
                 hookVars, viewerVars, mpVars, trackerVars, classified, retryVars>>

\* Next enabled whatever the status of the step.
nextStepAnyStatus ==
  /\ isOpen
  /\ IF currentStep < LastStep
       THEN /\ currentStep' = currentStep + 1
            /\ detectionStatus' = "waiting"
            /\ samplesCollected' = 0
            /\ isCollecting' = FALSE
            /\ collectionIntervalRef' = NoTimer
            /\ completeCalls' = 0
            /\ UNCHANGED isOpen
       ELSE /\ completeCalls' = 1
            /\ isOpen' = FALSE
            /\ UNCHANGED <<currentStep, detectionStatus, samplesCollected, isCollecting,
                           collectionIntervalRef>>
  /\ UNCHANGED <<now, handLandmarks, userHand, calibrationData, profileObjects,
                 hookVars, viewerVars, mpVars, trackerVars, classified, retryVars>>

\* Next handing the profile over on every step.
nextStepHandingOverEarly ==
  /\ isOpen
  /\ ~(IsGestureStep(currentStep) /\ detectionStatus # "success")
  /\ completeCalls' = 1
  /\ IF currentStep < LastStep
       THEN /\ currentStep' = currentStep + 1
            /\ detectionStatus' = "waiting"
            /\ samplesCollected' = 0
            /\ isCollecting' = FALSE
            /\ collectionIntervalRef' = NoTimer
            /\ UNCHANGED isOpen
       ELSE /\ isOpen' = FALSE
            /\ UNCHANGED <<currentStep, detectionStatus, samplesCollected, isCollecting,
                           collectionIntervalRef>>
  /\ UNCHANGED <<now, handLandmarks, userHand, calibrationData, profileObjects,
                 hookVars, viewerVars, mpVars, trackerVars, classified, retryVars>>

\* "Next" / "Finish"; the button is disabled on a gesture step that has not succeeded.
nextStep ==
  /\ isOpen
  /\ ~(IsGestureStep(currentStep) /\ detectionStatus # "success")
  /\ IF currentStep < LastStep
       THEN /\ currentStep' = currentStep + 1
            /\ detectionStatus' = "waiting"
            /\ samplesCollected' = 0
            /\ isCollecting' = FALSE
            /\ collectionIntervalRef' = NoTimer
            /\ completeCalls' = 0
            /\ UNCHANGED isOpen
       ELSE /\ completeCalls' = 1
            /\ isOpen' = FALSE
            /\ UNCHANGED <<currentStep, detectionStatus, samplesCollected, isCollecting,
                           collectionIntervalRef>>
  /\ UNCHANGED <<now, handLandmarks, userHand, calibrationData, profileObjects,
                 hookVars, viewerVars, mpVars, trackerVars, classified, retryVars>>

\* "Back", shown on every step but the first.
prevStep ==
  /\ isOpen
  /\ currentStep # 0
  /\ IF currentStep > 0
       THEN /\ currentStep' = currentStep - 1
            /\ detectionStatus' = "waiting"
            /\ samplesCollected' = 0
            /\ isCollecting' = FALSE
            /\ collectionIntervalRef' = NoTimer
            /\ UNCHANGED isOpen
       ELSE /\ isOpen' = FALSE
            /\ UNCHANGED <<currentStep, detectionStatus, samplesCollected, isCollecting,
                           collectionIntervalRef>>
  /\ completeCalls' = 0
  /\ UNCHANGED <<now, handLandmarks, userHand, calibrationData, profileObjects, hookVars,
                 viewerVars, mpVars, trackerVars, classified, retryVars>>

\* "Reset", shown on the gesture steps: the gesture's entry is set to the object of
\* EMPTY_CALIBRATION_DATA; no object is changed.
resetStep ==
  /\ isOpen
  /\ IsGestureStep(currentStep)
  /\ detectionStatus' = "waiting"
  /\ samplesCollected' = 0
  /\ isCollecting' = FALSE
  /\ collectionIntervalRef' = NoTimer
  /\ IF StepGesture(currentStep) # NoGesture
       THEN calibrationData' =
              [calibrationData EXCEPT ![StepGesture(currentStep)] =
                 EMPTY_CALIBRATION_DATA(StepGesture(currentStep))]
       ELSE UNCHANGED calibrationData
  /\ completeCalls' = 0
  /\ UNCHANGED <<now, isOpen, handLandmarks, userHand, currentStep, profileObjects, hookVars,
                 viewerVars, mpVars, trackerVars, classified, retryVars>>

\* "Cancel", shown on the first step.
cancelCalibration ==
  /\ isOpen
  /\ currentStep = 0
  /\ isCollecting' = FALSE
  /\ collectionIntervalRef' = NoTimer
  /\ isOpen' = FALSE
  /\ completeCalls' = 0
  /\ UNCHANGED <<now, handLandmarks, userHand, currentStep, calibrationData,
                 profileObjects, samplesCollected, detectionStatus,
                 hookVars, viewerVars, mpVars, trackerVars, classified, retryVars>>

\* The dialog is dismissed (escape, outside click, close icon): onOpenChange(false).
DialogDismissed ==
  /\ isOpen
  /\ isOpen' = FALSE
  /\ completeCalls' = 0
  /\ UNCHANGED <<now, handLandmarks, userHand, currentStep, calibrationData,
                 profileObjects, samplesCollected, isCollecting, detectionStatus,
                 collectionIntervalRef, hookVars, viewerVars, mpVars, trackerVars,
                 classified, retryVars>>

\* The parent shows the modal again; the component's state is kept.
DialogOpened ==
  /\ ~isOpen
  /\ isOpen' = TRUE
  /\ completeCalls' = 0
  /\ UNCHANGED <<now, handLandmarks, userHand, currentStep, calibrationData,
                 profileObjects, samplesCollected, isCollecting, detectionStatus,
                 collectionIntervalRef, hookVars, viewerVars, mpVars, trackerVars,
                 classified, retryVars>>

NextCalibration ==
  \/ NewLandmarks
  \/ startCollecting
  \/ stopCollecting
  \/ CollectionTimeout
  \/ nextStep
  \/ prevStep
  \/ resetStep
  \/ cancelCalibration
  \/ DialogDismissed
  \/ DialogOpened

InitCalibrating == now = StartTime /\ InitHook /\ InitViewer /\ InitMediaPipe
                   /\ InitCalibration(UserHands) /\ InitTracker /\ InitClassifier /\ InitRetry
                   /\ enabled /\ debounceMs = 800

SpecCalibration == InitCalibrating /\ [][NextCalibration]_vars

\* --------------------------------------------------------- LiveStreamDetector
\* brightness = (r + g + b) / 3; brightness > 100
IsBright(pixel) == pixel[1] + pixel[2] + pixel[3] > 3 * BrightnessThreshold

\* The sampling loop of detectSwipeGesture from sampled pixel k on: the sum of the
\* columns of the bright pixels and their number.
RECURSIVE ScanFrame(_, _, _)
ScanFrame(frame, k, acc) ==
  IF k >= SampledPixels THEN acc
  ELSE IF IsBright(frame[k])
    THEN ScanFrame(frame, k + 1,
                   [handXSum |-> acc.handXSum + ((k * SampleStride) % canvasWidth),
                    count |-> acc.count + 1])
    ELSE ScanFrame(frame, k + 1, acc)

\* The bright-pixel test, one pixel short.
TooFewBrightNine(count) == count < MinBrightCount - 1

\* if (count < 10) return "none"
TooFewBright(count) == count < MinBrightCount

\* The cooldown test, letting the last cooldown frame through.
CoolingDownShort(cooldown) == cooldown > 1

\* if (gestureCooldownRef.current > 0)
CoolingDown(cooldown) == cooldown > 0

\* avgX - lastX for two fractions.
Delta(avgX, lastX) == Rat(avgX.n * lastX.d - lastX.n * avgX.d, avgX.d * lastX.d)

\* The movement test, with the threshold itself counted as movement.
SwipeMovedInclusive(delta) == Abs(delta.n) >= SwipeThreshold * delta.d

\* Math.abs(delta) > 50
SwipeMoved(delta) == Abs(delta.n) > SwipeThreshold * delta.d

\* detectSwipeGesture on a frame, with the refs as they are: the value returned and
\* the refs afterwards.
detectSwipeGesture(frame, lastX, cooldown) ==
  LET scan == ScanFrame(frame, 0, [handXSum |-> 0, count |-> 0]) IN
    IF TooFewBright(scan.count)
      THEN [gesture |-> "none", count |-> scan.count, avgX |-> NoX,
            lastX |-> lastX, cooldown |-> cooldown]
      ELSE LET avgX == Rat(scan.handXSum, scan.count) IN
        IF CoolingDown(cooldown)
          THEN [gesture |-> "none", count |-> scan.count, avgX |-> avgX,
                lastX |-> avgX, cooldown |-> cooldown - 1]
        ELSE IF lastX # NoX /\ SwipeMoved(Delta(avgX, lastX))
          THEN [gesture |-> IF Delta(avgX, lastX).n > 0 THEN "next" ELSE "prev",
                count |-> scan.count, avgX |-> avgX,
                lastX |-> avgX, cooldown |-> CooldownFrames]
        ELSE [gesture |-> "none", count |-> scan.count, avgX |-> avgX,
              lastX |-> avgX, cooldown |-> cooldown]

\* onResults of PresentationViewer: "next" is SWIPE_RIGHT, "prev" is SWIPE_LEFT.
SwipeToGesture(gesture) ==
  CASE gesture = "next" -> "SWIPE_RIGHT"
    [] gesture = "prev" -> "SWIPE_LEFT"
    [] OTHER -> NONE

\* processFrame with a video that is ready: the frame is drawn, detectSwipeGesture
\* runs, and a swipe goes to onResults, that is to handleGestureDetected.
processFrame ==
  /\ presentationLoaded
  /\ \E frame \in VideoFrames :
       \E out \in {detectSwipeGesture(frame, lastXRef, gestureCooldownRef)} :
         /\ lastXRef' = out.lastX
         /\ gestureCooldownRef' = out.cooldown
         /\ framesSinceSwipe' =
              IF out.gesture # "none" THEN 0
              ELSE IF framesSinceSwipe < CooldownFrames THEN framesSinceSwipe + 1
              ELSE framesSinceSwipe
         /\ trackerSeen' = [fed |-> TRUE, count |-> out.count, avgX |-> out.avgX,
                            lastX |-> lastXRef, cooldown |-> gestureCooldownRef,
                            since |-> framesSinceSwipe, gesture |-> out.gesture,
                            viewerGesture |-> SwipeToGesture(out.gesture)]
         /\ handleGestureDetected(SwipeToGesture(out.gesture))
  /\ UNCHANGED <<now, presentationLoaded, keyActions, controllerSeen, hookVars, mpVars,
                 calVars, classified, retryVars>>

NextTracker ==
  \/ LoadPresentation
  \/ processFrame

\* PresentationViewer mounts the detector; the hook is not part of this path.
InitTracking == InitMounted /\ enabled

SpecTracker == InitTracking /\ [][NextTracker]_vars

\* -------------------------------------------------------------- detectGesture
\* detectGesture(landmarks) called with a hand; the caller gets the label alone.
Classify ==
  /\ \E h \in ClassifierHands :
       classified' = [fed |-> TRUE, hand |-> h, gesture |-> detectGesture(h),
                      confidence |-> NoConfidence]
  /\ UNCHANGED <<now, hookVars, viewerVars, mpVars, calVars, trackerVars, retryVars>>

NextClassifier == Classify

SpecClassifier == InitController /\ [][NextClassifier]_vars

\* ------------------------------------------------------- RobustMediaPipeHands
\* startDetection of the given render, up to its first await; count is the retryCount
\* the pending state updates start from.
startDetection(render, count) ==
  IF render.cameraStatus = "initializing"
    THEN UNCHANGED <<cameraStatus, error, retryCount, starting>>
    ELSE /\ count < MaxRetryCount
         /\ cameraStatus' = "initializing"
         /\ error' = "null"
         /\ retryCount' = count + 1
         /\ starting' = Append(starting, render)

\* "Start Detection", enabled unless initializing or active.
StartButton ==
  /\ cameraStatus \notin {"initializing", "active"}
  /\ Len(starting) + Len(retryTimers) < MaxPending
  /\ startDetection(Render(cameraStatus, retryCount), retryCount)
  /\ retrySeen' = [auto |-> 0, manual |-> TRUE]
  /\ UNCHANGED <<isInitialized, retryTimers, retryTimeoutRef>>
  /\ UNCHANGED <<now, hookVars, viewerVars, mpVars, calVars, trackerVars, classified>>

\* "Retry" of the error overlay, disabled once retryCount >= 2.
RetryButton ==
  /\ cameraStatus = "error"
  /\ ~(retryCount >= MaxAutoRetries)
  /\ Len(starting) + Len(retryTimers) < MaxPending
  /\ startDetection(Render(cameraStatus, retryCount), retryCount)
  /\ retrySeen' = [auto |-> 0, manual |-> TRUE]
  /\ UNCHANGED <<isInitialized, retryTimers, retryTimeoutRef>>
  /\ UNCHANGED <<now, hookVars, viewerVars, mpVars, calVars, trackerVars, classified>>

\* One of the awaited steps of a startDetection fails: the catch block.
StartFails ==
  /\ \E i \in DOMAIN starting :
       /\ starting' = RemoveAt(starting, i)
       /\ cameraStatus' = "error"
       /\ IF starting[i].retryCount < MaxAutoRetries
            THEN /\ error' = "failed"
                 /\ retryTimers' = Append(retryTimers, starting[i])
                 /\ retryTimeoutRef' = "pending"
            ELSE /\ error' = "max retries"
                 /\ UNCHANGED <<retryTimers, retryTimeoutRef>>
  /\ UNCHANGED <<isInitialized, retryCount, retrySeen>>
  /\ UNCHANGED <<now, hookVars, viewerVars, mpVars, calVars, trackerVars, classified>>

\* The three awaited steps of a startDetection succeed.
StartSucceeds ==
  /\ \E i \in DOMAIN starting :
       starting' = RemoveAt(starting, i)
  /\ cameraStatus' = "active"
  /\ isInitialized' = TRUE
  /\ UNCHANGED <<error, retryCount, retryTimers, retryTimeoutRef, retrySeen>>
  /\ UNCHANGED <<now, hookVars, viewerVars, mpVars, calVars, trackerVars, classified>>

\* A retry timeout fires and calls the startDetection that set it; a timeout set
\* earlier with a delay not longer has fired before.
RetryTimeout ==
  /\ \E i \in DOMAIN retryTimers :
       /\ \A j \in 1 .. i - 1 : Delay(retryTimers[j]) > Delay(retryTimers[i])
       /\ retryTimers' = RemoveAt(retryTimers, i)
       /\ retryTimeoutRef' = IF i = Len(retryTimers) /\ retryTimeoutRef = "pending"
                               THEN "fired" ELSE retryTimeoutRef
       /\ startDetection(retryTimers[i], retryCount)
  /\ retrySeen' = [retrySeen EXCEPT !.auto = @ + 1]
  /\ UNCHANGED isInitialized
  /\ UNCHANGED <<now, hookVars, viewerVars, mpVars, calVars, trackerVars, classified>>

\* "Stop", enabled unless idle: the timeout of retryTimeoutRef is cleared and the
\* state reset; the effect then finds cameraStatus idle and calls startDetection.
stopDetection ==
  /\ cameraStatus # "idle"
  /\ Len(starting) + Len(retryTimers) < MaxPending + 1
  /\ retryTimers' = IF retryTimeoutRef = "pending"
                      THEN SubSeq(retryTimers, 1, Len(retryTimers) - 1)
                      ELSE retryTimers
  /\ retryTimeoutRef' = "null"
  /\ isInitialized' = FALSE
  /\ startDetection(Render("idle", 0), 0)
  /\ retrySeen' = [auto |-> 0, manual |-> FALSE]
  /\ UNCHANGED <<now, hookVars, viewerVars, mpVars, calVars, trackerVars, classified>>

NextRetry ==
  \/ StartButton
  \/ RetryButton
  \/ StartFails
  \/ StartSucceeds
  \/ RetryTimeout
  \/ stopDetection

SpecRetry == InitController /\ [][NextRetry]_vars

\* ===================================================== claims on the debouncer
\* The emissions that preceded the candidate evaluated at this instant.
EmissionsBefore ==
  IF candidate.accepted THEN SubSeq(callbackLog, 1, Len(callbackLog) - 1) ELSE callbackLog

\* C1: any two emitted events of the same type have timestamps at least
\* debounceMs apart.
C1_DebounceInvariant ==
  \A i, j \in DOMAIN callbackLog :
    (i < j /\ callbackLog[i].gesture = callbackLog[j].gesture)
      => callbackLog[j].timestamp - callbackLog[i].timestamp >= debounceMs

\* Two events of the same type were emitted, another type between them.
C1_Witness ==
  \E i, j \in DOMAIN callbackLog :
    /\ j = i + 2
    /\ callbackLog[i].gesture = callbackLog[j].gesture
    /\ callbackLog[i + 1].gesture # callbackLog[i].gesture

\* C2: two consecutive emitted events of the same type, no other type emitted
\* between them, are at least 1.5 x debounceMs apart.
C2_SameGestureInvariant ==
  \A i \in DOMAIN callbackLog :
    (i + 1 \in DOMAIN callbackLog /\ callbackLog[i].gesture = callbackLog[i + 1].gesture)
      => 2 * (callbackLog[i + 1].timestamp - callbackLog[i].timestamp) >= 3 * debounceMs

\* The same type was emitted twice in a row, exactly 1.5 x debounceMs apart.
C2_Witness ==
  \E i \in DOMAIN callbackLog :
    /\ i + 1 \in DOMAIN callbackLog
    /\ callbackLog[i].gesture = callbackLog[i + 1].gesture
    /\ 2 * (callbackLog[i + 1].timestamp - callbackLog[i].timestamp) = 3 * debounceMs

\* A SWIPE_LEFT candidate of confidence 1.0 evaluated with debounceMs = 800 when the
\* last emission was SWIPE_LEFT.
C3_Case ==
  /\ debounceMs = 800
  /\ candidate.fed
  /\ candidate.gesture = "SWIPE_LEFT"
  /\ candidate.confidence = 100
  /\ candidate.lastType = "SWIPE_LEFT"

\* C3 as stated: the SWIPE_LEFT candidate arriving 1300 ms after the emitted
\* SWIPE_LEFT is suppressed.
C3_Original ==
  (C3_Case /\ candidate.sinceLast = 1300) => ~candidate.accepted

\* C3 amended: the SWIPE_LEFT candidate arriving 1300 ms after the emitted SWIPE_LEFT
\* is emitted; a repeat is suppressed exactly when it arrives less than 1200 ms after it.
C3_Amended ==
  C3_Case => (candidate.accepted <=> candidate.sinceLast >= 1200)

\* The repeat at T+1300 was evaluated and emitted.
C3_Witness ==
  C3_Case /\ candidate.sinceLast = 1300 /\ candidate.accepted

\* SWIPE_LEFT was emitted at T, OPEN_PALM at T+900, nothing since, and a SWIPE_LEFT
\* candidate of confidence 1.0 is evaluated with debounceMs = 800.
C4_Case ==
  /\ debounceMs = 800
  /\ candidate.fed
  /\ candidate.gesture = "SWIPE_LEFT"
  /\ candidate.confidence = 100
  /\ Len(EmissionsBefore) >= 2
  /\ LET n == Len(EmissionsBefore) IN
       /\ EmissionsBefore[n].gesture = "OPEN_PALM"
       /\ EmissionsBefore[n - 1].gesture = "SWIPE_LEFT"
       /\ EmissionsBefore[n].timestamp - EmissionsBefore[n - 1].timestamp = 900

\* C4 as stated: the SWIPE_LEFT candidate at T+1300 (400 ms after the OPEN_PALM) is
\* emitted.
C4_Original ==
  (C4_Case /\ candidate.sinceLast = 400) => candidate.accepted

\* C4 amended: the SWIPE_LEFT candidate at T+1300 is suppressed by the plain debounce
\* window; it is emitted exactly when it arrives at T+1700 or later.
C4_Amended ==
  C4_Case => (candidate.accepted <=> candidate.sinceLast >= 800)

\* The SWIPE_LEFT candidate at T+1300 was evaluated and suppressed.
C4_Witness ==
  C4_Case /\ candidate.sinceLast = 400 /\ ~candidate.accepted

\* C5: a candidate whose confidence is below confidenceThreshold is never emitted.
C5_LowConfidenceDropped ==
  (candidate.fed /\ candidate.confidence < confidenceThreshold)
    => (~candidate.accepted /\ EmissionsBefore = callbackLog)

\* C6: a candidate of type NONE never causes an emission.
C6_NoneNeverEmitted ==
  /\ \A i \in DOMAIN callbackLog : callbackLog[i].gesture # NONE
  /\ (candidate.fed /\ candidate.gesture = NONE) => ~candidate.accepted

\* ============================================ claims on the paths to the controller
\* C7: two mapped key presses less than debounceMs apart never both cause a slide
\* or media action in PresentationViewer.
C7_KeyPressesDebounced ==
  \A i, j \in DOMAIN keyActions :
    i < j => keyActions[j].timestamp - keyActions[i].timestamp >= debounceMs

\* A frame shows a pose the classifier recognises.
ShowsPose(hands) ==
  \E i \in DOMAIN hands : detectGesture(hands[i]) # NONE

\* C8: landmark frames showing a recognised pose lead to a debounced gesture event,
\* and two landmark-derived actions are never handled less than debounceMs apart.
C8_LandmarkActionsDebounced ==
  /\ ShowsPose(hookHandLandmarks) => callbackLog # <<>>
  /\ \A i, j \in DOMAIN mpHandled :
       i < j => mpHandled[j].timestamp - mpHandled[i].timestamp >= debounceMs

\* ================================================= claims on the calibration
\* The profile a gesture's entry of calibrationData refers to.
Profile(gesture) == profileObjects[calibrationData[gesture]]

\* The features of one hand that a gesture's step averages, in the order of Averages.
Features(gesture, landmarks) ==
  CASE gesture = "thumbUp" ->
         <<landmarks.wristY - landmarks.thumbTipY, landmarks.thumbTipY, landmarks.wristY>>
    [] gesture = "pinkyUp" ->
         <<landmarks.wristY - landmarks.pinkyTipY, landmarks.pinkyTipY, landmarks.wristY>>
    [] gesture = "openPalm" ->
         <<landmarks.wristY - landmarks.indexTipY, landmarks.wristY - landmarks.middleTipY,
           landmarks.wristY - landmarks.ringTipY, landmarks.wristY - landmarks.pinkyTipY>>
    [] gesture = "closedFist" ->
         <<landmarks.indexTipY - landmarks.indexPipY, landmarks.middleTipY - landmarks.middlePipY,
           landmarks.ringTipY - landmarks.ringPipY, landmarks.pinkyTipY - landmarks.pinkyPipY>>
    [] gesture = "pointing" ->
         <<landmarks.wristY - landmarks.indexTipY>>

\* The running averages a gesture's profile stores.
Averages(gesture, profile) ==
  CASE gesture = "thumbUp" -> <<profile.thumbExtension, profile.thumbTipY, profile.wristY>>
    [] gesture = "pinkyUp" -> <<profile.pinkyExtension, profile.pinkyTipY, profile.wristY>>
    [] gesture = "openPalm" -> profile.fingerExtensions
    [] gesture = "closedFist" -> profile.fingerCurls
    [] gesture = "pointing" -> <<profile.indexExtension>>

\* C9: after N >= 1 samples with the same feature value v have been folded into a
\* fresh step, the stored running average of that feature equals v.
C9_AverageOfIdenticalSamples ==
  \A gesture \in CalGestures :
    LET profile == Profile(gesture) IN
      (/\ Len(profile.samples) >= 1
       /\ \A i \in DOMAIN profile.samples : profile.samples[i] = profile.samples[1])
        => \A k \in DOMAIN Averages(gesture, profile) :
             Averages(gesture, profile)[k]
               = Whole(Features(gesture, Landmarks(profile.samples[1]))[k])

\* C10: after resetStep, the current gesture's profile holds no samples and its
\* averages are back at their initial values, samplesCollected is 0 and the
\* status is "waiting".
C10_ResetClearsStep ==
  [][resetStep =>
       /\ profileObjects'[calibrationData'[StepGesture(currentStep)]]
            = EmptyProfile(StepGesture(currentStep))
       /\ samplesCollected' = 0
       /\ detectionStatus' = "waiting"]_vars

\* C11: cancelling or closing the dialog discards all progress: while the dialog
\* is closed no frame is folded, and a calibration opened afterwards starts at
\* the first step with every gesture's profile empty.
C11_CancelDiscardsProgress ==
  [][/\ ~isOpen => profileObjects' = profileObjects
     /\ (~isOpen /\ isOpen') =>
          /\ currentStep' = 0
          /\ \A gesture \in CalGestures :
               profileObjects'[calibrationData'[gesture]] = EmptyProfile(gesture)]_vars

\* C12: a collecting step becomes Success exactly when samplesCollected reaches
\* samplesNeeded, collection then stops, and samplesCollected never exceeds
\* samplesNeeded.
C12_SuccessAtSampleTarget ==
  [][/\ samplesCollected' <= samplesNeeded
     /\ (detectionStatus # "success" /\ detectionStatus' = "success")
          => (samplesCollected' = samplesNeeded /\ ~isCollecting')
     /\ (isCollecting /\ samplesCollected < samplesNeeded
           /\ samplesCollected' = samplesNeeded)
          => (detectionStatus' = "success" /\ ~isCollecting')]_vars

C12_Witness ==
  /\ IsGestureStep(currentStep)
  /\ detectionStatus = "success"
  /\ samplesCollected = samplesNeeded
  /\ ~isCollecting

\* Sum of feature k of a gesture over the first n samples.
RECURSIVE FeatureSum(_, _, _, _)
FeatureSum(gesture, samples, k, n) ==
  IF n = 0 THEN 0
  ELSE Features(gesture, Landmarks(samples[n]))[k] + FeatureSum(gesture, samples, k, n - 1)

\* C13: whenever a step is in Success, its gesture's profile holds exactly
\* samplesNeeded samples and every stored average is the arithmetic mean of them.
C13_SuccessProfileIsMean ==
  (IsGestureStep(currentStep) /\ detectionStatus = "success") =>
    LET gesture == StepGesture(currentStep)
        profile == Profile(gesture)
    IN /\ Len(profile.samples) = samplesNeeded
       /\ \A k \in DOMAIN Averages(gesture, profile) :
            Averages(gesture, profile)[k]
              = Rat(FeatureSum(gesture, profile.samples, k, Len(profile.samples)),
                    Len(profile.samples))

\* C14: when the timeout fires on a collection that has fewer than samplesNeeded
\* samples, the status becomes Error and isCollecting becomes false.
C14_TimeoutMeansError ==
  [][(CollectionTimeout /\ samplesCollected < samplesNeeded)
       => (detectionStatus' = "error" /\ ~isCollecting')]_vars

C14_Witness ==
  /\ detectionStatus = "error"
  /\ ~isCollecting
  /\ samplesCollected > 0
  /\ samplesCollected < samplesNeeded
  /\ collectionIntervalRef = NoTimer

\* C15: the timeout changes only the status and the collecting flag; the samples
\* and running averages of every gesture are what they were before it fired.
C15_TimeoutKeepsSamples ==
  [][CollectionTimeout =>
       /\ profileObjects' = profileObjects
       /\ calibrationData' = calibrationData
       /\ samplesCollected' = samplesCollected
       /\ currentStep' = currentStep]_vars

C15_Witness ==
  /\ IsGestureStep(currentStep)
  /\ detectionStatus = "error"
  /\ Len(Profile(StepGesture(currentStep)).samples) >= 2

C17_HandOverOnlyOnFinish ==
  [][/\ completeCalls' = 1 => (isOpen /\ currentStep = LastStep /\ ~isOpen')
     /\ (nextStep /\ currentStep = LastStep) => (completeCalls' = 1 /\ ~isOpen')
     /\ (prevStep \/ resetStep \/ cancelCalibration \/ (nextStep /\ currentStep < LastStep))
          => completeCalls' = 0]_vars

C17_Witness ==
  /\ completeCalls = 1
  /\ ~isOpen
  /\ currentStep = LastStep

\* C28: within a collection run Success and Error exclude each other: a status of
\* Success never turns into Error, the timeout sets Error only on the run that is
\* still detecting, and no timeout stays pending across Next, Back or Reset, so a
\* timeout started on one step cannot set Error on another.
C28_SuccessAndErrorExclusive ==
  [][/\ detectionStatus = "success" => detectionStatus' # "error"
     /\ detectionStatus = "success" => collectionIntervalRef = NoTimer
     /\ (detectionStatus # "error" /\ detectionStatus' = "error")
          => (CollectionTimeout /\ detectionStatus = "detecting"
              /\ currentStep' = currentStep)
     /\ (currentStep' # currentStep \/ resetStep \/ nextStep \/ prevStep)
          => collectionIntervalRef' = NoTimer]_vars

\* A run reached Success on a step where an earlier run had been given up with one
\* sample (by its timeout and Reset, or by Reset alone).
C28_Witness ==
  /\ IsGestureStep(currentStep)
  /\ detectionStatus = "success"
  /\ collectionIntervalRef = NoTimer
  /\ Len(profileObjects[calibrationData[StepGesture(currentStep)]].samples)
       = samplesNeeded + 1

\* The samples recorded for the gesture of a step.
StepSamples(step) == profileObjects[calibrationData[StepGesture(step)]].samples

\* C29: the step index stays within 0 .. 6, over intro, thumbUp, pinkyUp, openPalm,
\* closedFist, pointing, complete; it moves by one step at a time, a gesture step is
\* left forwards only while its status is Success, so every gesture step before the
\* current one has had a full run, and the hand-over happens on the complete step.
C29_StepsInOrderThroughSuccess ==
  [][/\ currentStep' \in 0 .. 6
     /\ CALIBRATION_STEPS = <<NoGesture, "thumbUp", "pinkyUp", "openPalm", "closedFist",
                              "pointing", NoGesture>>
     /\ currentStep' \in {currentStep - 1, currentStep, currentStep + 1}
     /\ (currentStep' = currentStep + 1 /\ IsGestureStep(currentStep))
          => (nextStep /\ detectionStatus = "success"
              /\ samplesCollected >= samplesNeeded)
     /\ \A step \in 1 .. 5 :
          step < currentStep' => Len(StepSamples(step)') >= samplesNeeded
     /\ completeCalls' = 1 => currentStep = 6]_vars

\* The dialog shows the complete step, each of the five gestures having exactly the
\* samples of one successful run.
C29_Witness ==
  /\ isOpen
  /\ currentStep = LastStep
  /\ completeCalls = 0
  /\ \A step \in 1 .. 5 : Len(StepSamples(step)) = samplesNeeded

\* ============================================ claims on the motion swipe tracker
\* The centroid of the latest frame minus the previous centroid, times the
\* (positive) product of the two denominators.
SeenMove == trackerSeen.avgX.n * trackerSeen.lastX.d - trackerSeen.lastX.n * trackerSeen.avgX.d
SeenScale == trackerSeen.avgX.d * trackerSeen.lastX.d

\* C18: a processed frame emits a swipe exactly when no cooldown is active, a
\* previous centroid exists and the centroid moved by strictly more than 50 px;
\* the swipe is "next" (SWIPE_RIGHT) for a positive change and "prev"
\* (SWIPE_LEFT) for a negative one.
C18_SwipeExactlyOnLargeMove ==
  trackerSeen.fed =>
    /\ trackerSeen.gesture # "none" <=>
         /\ trackerSeen.avgX # NoX
         /\ trackerSeen.cooldown = 0
         /\ trackerSeen.lastX # NoX
         /\ Abs(SeenMove) > SwipeThreshold * SeenScale
    /\ trackerSeen.gesture = "next" =>
         (SeenMove > 0 /\ trackerSeen.viewerGesture = "SWIPE_RIGHT")
    /\ trackerSeen.gesture = "prev" =>
         (SeenMove < 0 /\ trackerSeen.viewerGesture = "SWIPE_LEFT")

\* A frame that moved the centroid by exactly 50 px with no cooldown left.
C18_Witness ==
  /\ trackerSeen.fed
  /\ trackerSeen.avgX # NoX
  /\ trackerSeen.lastX # NoX
  /\ trackerSeen.cooldown = 0
  /\ Abs(SeenMove) = SwipeThreshold * SeenScale
  /\ trackerSeen.gesture = "none"

\* C19: no swipe is emitted on any of the 20 frames that follow an emitted swipe.
C19_CooldownTwentyFrames ==
  (trackerSeen.fed /\ trackerSeen.gesture # "none") => trackerSeen.since >= CooldownFrames

\* A frame in the cooldown that moved the centroid by more than 50 px.
C19_Witness ==
  /\ trackerSeen.fed
  /\ trackerSeen.since < CooldownFrames
  /\ trackerSeen.avgX # NoX
  /\ trackerSeen.lastX # NoX
  /\ Abs(SeenMove) > SwipeThreshold * SeenScale
  /\ trackerSeen.gesture = "none"

\* C20: a frame with fewer than 10 bright sampled pixels emits nothing, in every
\* state of the tracker.
C20_DarkFrameEmitsNothing ==
  (trackerSeen.fed /\ trackerSeen.count < MinBrightCount) =>
    (trackerSeen.gesture = "none" /\ trackerSeen.viewerGesture = NONE)

\* A frame of nine bright pixels arriving with a previous centroid and no cooldown.
C20_Witness ==
  /\ trackerSeen.fed
  /\ trackerSeen.count = MinBrightCount - 1
  /\ trackerSeen.lastX # NoX
  /\ trackerSeen.cooldown = 0
  /\ trackerSeen.gesture = "none"

C22_SlideIndexInRange ==
  [][/\ currentSlideIndex' \in 0 .. NumSlides - 1
     /\ (GestureDetected /\ controllerSeen'.gesture = "SWIPE_RIGHT") =>
          currentSlideIndex' = IF currentSlideIndex = NumSlides - 1
                                 THEN currentSlideIndex ELSE currentSlideIndex + 1
     /\ (GestureDetected /\ controllerSeen'.gesture = "SWIPE_LEFT") =>
          currentSlideIndex' = IF currentSlideIndex = 0
                                 THEN currentSlideIndex ELSE currentSlideIndex - 1]_vars

\* SWIPE_RIGHT on the last slide.
C22_Witness ==
  /\ controllerSeen.gesture = "SWIPE_RIGHT"
  /\ controllerSeen.slideBefore = NumSlides - 1
  /\ currentSlideIndex = NumSlides - 1

\* ----------------------------------------------------------- debouncer, effect
\* processGesture ran in this step.
CandidateEvaluated ==
  candidate'.fed /\ processGesture(candidate'.gesture, candidate'.confidence)
\* The candidate of this step falls under one of the two debounce rules.
SuppressedByRule ==
  \/ now - lastGestureTimeRef < debounceMs
  \/ /\ candidate'.gesture = lastGestureTypeRef
     /\ 2 * (now - lastGestureTimeRef) < 3 * debounceMs

\* C27: an accepted candidate sets lastGestureTime to the current time and
\* lastGestureType to its type and invokes the callback exactly once with
\* (type, confidence); a candidate suppressed by either debounce rule leaves both
\* unchanged and invokes the callback zero times.
C27_AcceptedSetsSuppressedKeeps ==
  [][CandidateEvaluated =>
       IF SuppressedByRule
         THEN /\ lastGestureTimeRef' = lastGestureTimeRef
              /\ lastGestureTypeRef' = lastGestureTypeRef
              /\ callbackLog' = callbackLog
         ELSE /\ lastGestureTimeRef' = now
              /\ lastGestureTypeRef' = candidate'.gesture
              /\ callbackLog' = Append(callbackLog,
                   [gesture |-> candidate'.gesture, confidence |-> candidate'.confidence,
                    timestamp |-> now])]_vars

\* A candidate was suppressed after an emission and the emission's time and type
\* are still the recorded ones; an earlier candidate had been accepted.
C27_Witness ==
  /\ candidate.fed
  /\ ~candidate.accepted
  /\ callbackLog # <<>>
  /\ candidate.sinceLast > 0
  /\ lastGestureTimeRef = callbackLog[Len(callbackLog)].timestamp
  /\ lastGestureTypeRef = callbackLog[Len(callbackLog)].gesture
  /\ now - lastGestureTimeRef = candidate.sinceLast

\* ===================================================== claims on the classifier
\* The gesture type a label of detectGesture stands for.
LabelType(label) ==
  CASE label = "thumbs_up" -> "THUMB_UP"
    [] label = "pointing" -> "POINTING"
    [] label = "open_palm" -> "OPEN_PALM"
    [] label = "closed_fist" -> "CLOSED_FIST"
    [] OTHER -> NONE
\* The rules as stated over the feature vector: extension = wrist.y - tip.y,
\* curl = tip.y - pip.y.
Extension(h, tipY) == h.wristY - tipY
ThumbUpRule(h) ==
  /\ Extension(h, h.thumbTipY) > ThumbMargin
  /\ Extension(h, h.indexTipY) < 0
  /\ Extension(h, h.middleTipY) < 0
PointingRule(h) ==
  /\ Extension(h, h.indexTipY) > IndexMargin
  /\ Extension(h, h.middleTipY) < 0
  /\ Extension(h, h.ringTipY) < 0
  /\ Extension(h, h.pinkyTipY) < 0
OpenPalmRule(h) ==
  \A tipY \in {h.thumbTipY, h.indexTipY, h.middleTipY, h.ringTipY, h.pinkyTipY} :
    Extension(h, tipY) > 0
ClosedFistRule(h) ==
  /\ h.indexTipY - h.indexPipY > 0
  /\ h.middleTipY - h.middlePipY > 0
  /\ h.ringTipY - h.ringPipY > 0
  /\ h.pinkyTipY - h.pinkyPipY > 0
Classified21 == classified.fed /\ classified.hand.length = HandLandmarkCount

\* C23: a hand of 21 landmarks whose thumb extension exceeds the thumb threshold and
\* whose index and middle extensions are negative is classified THUMB_UP with
\* confidence 0.9, whatever its ring and pinky extensions are.
C23_ThumbUpWithConfidence ==
  (Classified21 /\ ThumbUpRule(classified.hand)) =>
    /\ LabelType(classified.gesture) = "THUMB_UP"
    /\ classified.confidence = DefaultConfidence

\* C24: the rules are tried in the order THUMB_UP, POINTING, OPEN_PALM, CLOSED_FIST
\* and the first rule that matches decides the result; a hand matching both the
\* THUMB_UP and the POINTING rule is THUMB_UP.
C24_FirstMatchingRule ==
  Classified21 =>
    LabelType(classified.gesture) =
      IF ThumbUpRule(classified.hand) THEN "THUMB_UP"
      ELSE IF PointingRule(classified.hand) THEN "POINTING"
      ELSE IF OpenPalmRule(classified.hand) THEN "OPEN_PALM"
      ELSE IF ClosedFistRule(classified.hand) THEN "CLOSED_FIST"
      ELSE NONE

\* C25: a hand whose four non-thumb curls all exceed their thresholds and that matches
\* none of THUMB_UP, POINTING and OPEN_PALM is classified CLOSED_FIST, not NONE.
C25_CurledHandIsClosedFist ==
  (/\ Classified21
   /\ ClosedFistRule(classified.hand)
   /\ ~ThumbUpRule(classified.hand)
   /\ ~PointingRule(classified.hand)
   /\ ~OpenPalmRule(classified.hand)) =>
    /\ LabelType(classified.gesture) = "CLOSED_FIST"
    /\ classified.gesture # NONE

\* C26: a hand whose landmark count is not 21, fewer or more, is rejected: the
\* classifier yields no gesture for it and the calibration collector folds no sample.
C26_OtherLandmarkCountRejected ==
  /\ (classified.fed /\ classified.hand.length # HandLandmarkCount) =>
       classified.gesture = NONE
  /\ \A ref \in {"thumbsUpFrame", "openPalmFrame", "partialFrame", "extraFrame"} :
       (/\ classified.fed
        /\ classified.hand = Landmarks(ref)
        /\ classified.hand.length # HandLandmarkCount) =>
         \A gesture \in CalGestures : SampleIgnored(<<ref>>, TRUE, gesture)

\* ================================================ claims on the detection retries
\* C30: the automatic retries of startDetection are bounded: at most 2 retries are
\* made by the retry timeout after a start, and when no button started detection
\* retryCount stays within the displayed maximum of 2 and no retry timeout is
\* pending once it is reached and the start has failed.
C30_AutomaticRetriesBounded ==
  /\ retrySeen.auto <= 2
  /\ ~retrySeen.manual => retryCount <= 2
  /\ (~retrySeen.manual /\ retryCount >= 2 /\ cameraStatus = "error")
       => retryTimers = <<>>

====
